---- MODULE Spec2Model ----
(***************************************************************************)
(* Model of webfetch (src/web_fetch.py): protocol negotiation with https   *)
(* upgrade, status verification, declared-length check, bounded streaming, *)
(* decoding and output dispatch.                                           *)
(*                                                                         *)
(* Strings are modelled as sequences of tokens: a URL is a sequence whose  *)
(* first token is its scheme prefix, a header value is a sequence of       *)
(* characters, a body text is a sequence of markup/text tokens.            *)
(***************************************************************************)
EXTENDS Integers, Sequences, FiniteSets, TLC

\* ---------------------------------------------------------------- bounds
\* at most this many operations of one call run "slow" (just under the
\* per-operation timeout); caps the elapsed-time counter
MaxSlow == 2
\* at most this many empty chunks are yielded by one body stream
MaxEmpty == 1

\* ------------------------------------------------------ program constants
MAX_RESPONSE_SIZE == 5 * 1024 * 1024
DEFAULT_TIMEOUT == 30
MAX_TIMEOUT == 120
CHUNK_SIZE == 65536

\* ------------------------------------------------------------ input sets
None == <<"None">>
Urls == { <<"http://", "h", "/p">>, <<"https://", "h", "/p">>,
          <<"ftp://", "h">>, <<"h", "/p">>, <<>> }
FormatArgs == {"text", "markdown", "html", "json"}
\* the optional timeout argument: <<>> when omitted, <<n>> when supplied
TimeoutArgs == {<<>>, <<5>>, <<200>>}
Statuses == {199, 200, 300, 404}
ContentTypes == { <<"text/html", "; charset=utf-8">>, <<"text/plain">>, <<>> }
Digit == [c \in {"0","1","2","3","4","5","6","7","8","9"} |->
            CASE c = "0" -> 0 [] c = "1" -> 1 [] c = "2" -> 2 [] c = "3" -> 3
              [] c = "4" -> 4 [] c = "5" -> 5 [] c = "6" -> 6 [] c = "7" -> 7
              [] c = "8" -> 8 [] c = "9" -> 9]
\* content-length header values: absent, non-numeric, small, cap, cap+1
ContentLengths == { None, <<"a", "b">>, <<"1", "0">>,
                    <<"5","2","4","2","8","8","0">>,
                    <<"5","2","4","2","8","8","1">> }
BodySizes == {0, MAX_RESPONSE_SIZE, MAX_RESPONSE_SIZE + CHUNK_SIZE + 1}
BodyTexts == { <<"<script>", "x", "</script>", "<p>", "Hi", " ", " ", "there", "</p>">>,
               <<"abc">> }

\* ------------------------------------------------------- pure functions
\* str.startswith (web_fetch.py:52, 68)
StartsWith(u, p) == Len(u) >= 1 /\ u[1] = p

\* slip: any "scheme://" prefix is accepted
ValidUrl_AnyScheme(u) == Len(u) >= 1 /\ u[1] \in {"http://", "https://", "ftp://"}

ValidUrl(u) == StartsWith(u, "http://") \/ StartsWith(u, "https://")

\* slip: the scheme is not replaced
HttpsVariant_NoUpgrade(u) == u

\* "https://" + u[len("http://"):]  (web_fetch.py:69)
HttpsVariant(u) == <<"https://">> \o SubSeq(u, 2, Len(u))

\* timeout resolution (web_fetch.py:55-57)
ResolveTimeout(to) ==
    LET t0 == IF to # <<>> THEN to[1] ELSE DEFAULT_TIMEOUT
    IN IF t0 > MAX_TIMEOUT THEN MAX_TIMEOUT ELSE t0

\* slip: the upper end of the 2xx range is inclusive
Ok_Inclusive(status) == 200 <= status /\ status <= 300

\* _ok (web_fetch.py:127-131)
Ok(status) == 200 <= status /\ status < 300

\* str.isdigit and int() on a header value
IsDigitStr(s) == Len(s) >= 1 /\ \A i \in 1..Len(s) : s[i] \in DOMAIN Digit
RECURSIVE ToInt(_)
ToInt(s) == IF s = <<>> THEN 0
            ELSE 10 * ToInt(SubSeq(s, 1, Len(s) - 1)) + Digit[s[Len(s)]]

\* slip: the declared length is compared with ten times the cap
DeclaredTooLarge_TenfoldCap(cl) ==
    cl # None /\ cl # <<>> /\ IsDigitStr(cl) /\ ToInt(cl) > MAX_RESPONSE_SIZE * 10

\* cl and cl.isdigit() and int(cl) > MAX_RESPONSE_SIZE  (web_fetch.py:80)
DeclaredTooLarge(cl) ==
    cl # None /\ cl # <<>> /\ IsDigitStr(cl) /\ ToInt(cl) > MAX_RESPONSE_SIZE

\* slip: the cap is tested against the count before the chunk was written
ExceedsCap_BeforeWrite(n) == n - CHUNK_SIZE > MAX_RESPONSE_SIZE

\* buf.tell() > MAX_RESPONSE_SIZE  (web_fetch.py:88)
ExceedsCap(n) == n > MAX_RESPONSE_SIZE

\* ------------------------------------------------- text transformations
WS == {" ", "\n", "\n\n"}
RemovableOpen == {"<script>", "<style>", "<noscript>", "<iframe>", "<object>", "<embed>"}
CloseOf == [o \in RemovableOpen |->
              CASE o = "<script>" -> "</script>" [] o = "<style>" -> "</style>"
                [] o = "<noscript>" -> "</noscript>" [] o = "<iframe>" -> "</iframe>"
                [] o = "<object>" -> "</object>" [] o = "<embed>" -> "</embed>"]
Tags == RemovableOpen \cup {CloseOf[o] : o \in RemovableOpen}
          \cup {"<p>", "</p>", "<h1>", "</h1>", "<meta>", "<link>"}

\* index of the first occurrence of tok in s at or after i, 0 when there is none
RECURSIVE IndexFrom(_, _, _)
IndexFrom(s, tok, i) ==
    IF i > Len(s) THEN 0
    ELSE IF s[i] = tok THEN i ELSE IndexFrom(s, tok, i + 1)

\* _normalize_ws (web_fetch.py:166-168): re.sub(r"\s+", " ", s).strip()
RECURSIVE CollapseWs(_)
CollapseWs(s) ==
    IF s = <<>> THEN <<>>
    ELSE IF s[1] \in WS
         THEN IF Len(s) >= 2 /\ s[2] \in WS
              THEN CollapseWs(Tail(s))
              ELSE <<" ">> \o CollapseWs(Tail(s))
         ELSE <<s[1]>> \o CollapseWs(Tail(s))
RECURSIVE StripLeft(_)
StripLeft(s) == IF s # <<>> /\ s[1] \in WS THEN StripLeft(Tail(s)) ELSE s
RECURSIVE StripRight(_)
StripRight(s) == IF s # <<>> /\ s[Len(s)] \in WS
                 THEN StripRight(SubSeq(s, 1, Len(s) - 1)) ELSE s
Strip(s) == StripRight(StripLeft(s))
NormalizeWs(s) == Strip(CollapseWs(s))

\* pattern tier (web_fetch.py:138-142): a removable element is replaced by a
\* space only when its closing tag exists; every remaining tag becomes a space
RECURSIVE RegexRemoveElems(_)
RegexRemoveElems(s) ==
    IF s = <<>> THEN <<>>
    ELSE IF s[1] \in RemovableOpen /\ IndexFrom(s, CloseOf[s[1]], 2) # 0
         THEN <<" ">> \o RegexRemoveElems(SubSeq(s, IndexFrom(s, CloseOf[s[1]], 2) + 1, Len(s)))
         ELSE <<s[1]>> \o RegexRemoveElems(Tail(s))
RECURSIVE TagsToSpace(_)
TagsToSpace(s) ==
    IF s = <<>> THEN <<>>
    ELSE (IF s[1] \in Tags THEN <<" ">> ELSE <<s[1]>>) \o TagsToSpace(Tail(s))

\* structural tier (web_fetch.py:144-149): decompose() drops the element with
\* its content (an unterminated element extends to the end of the input);
\* get_text(" ") joins the remaining text nodes with a space
RECURSIVE SoupDecompose(_)
SoupDecompose(s) ==
    IF s = <<>> THEN <<>>
    ELSE IF s[1] \in RemovableOpen
         THEN IF IndexFrom(s, CloseOf[s[1]], 2) # 0
              THEN <<"<gone>">> \o SoupDecompose(SubSeq(s, IndexFrom(s, CloseOf[s[1]], 2) + 1, Len(s)))
              ELSE <<"<gone>">>
         ELSE <<s[1]>> \o SoupDecompose(Tail(s))
RECURSIVE SoupGetText(_)
SoupGetText(s) ==
    IF s = <<>> THEN <<>>
    ELSE (IF s[1] \in Tags \cup {"<gone>"} THEN <<" ">> ELSE <<s[1]>>) \o SoupGetText(Tail(s))

\* _html_to_text (web_fetch.py:134-149); bs: BeautifulSoup was importable
HtmlToText(html, bs) ==
    IF ~bs THEN NormalizeWs(TagsToSpace(RegexRemoveElems(html)))
    ELSE NormalizeWs(SoupGetText(SoupDecompose(html)))

\* markdownify with heading_style="ATX", strip=[script, style, meta, link]:
\* stripped tags vanish (their text stays), headings get a "# " prefix,
\* block boundaries become blank lines
RECURSIVE Markdownify(_)
Markdownify(s) ==
    IF s = <<>> THEN <<>>
    ELSE (CASE s[1] \in {"<script>", "</script>", "<style>", "</style>", "<meta>", "<link>"} -> <<>>
            [] s[1] = "<h1>" -> <<"# ">>
            [] s[1] \in {"</h1>", "<p>", "</p>"} -> <<"\n\n">>
            [] s[1] \in Tags \ {"<script>", "</script>", "<style>", "</style>", "<meta>", "<link>",
                                "<h1>", "</h1>", "<p>", "</p>"} -> <<>>
            [] OTHER -> <<s[1]>>) \o Markdownify(Tail(s))

\* fenced block (web_fetch.py:113, 163); "[fence]" stands for the three backticks
Fenced(text) == <<"[fence]", "\n">> \o text \o <<"\n", "[fence]">>

\* _html_to_markdown (web_fetch.py:152-163); mdAvail: markdownify was importable
HtmlToMarkdown(html, mdAvail, bs) ==
    IF mdAvail THEN Strip(Markdownify(html))
    ELSE Fenced(HtmlToText(html, bs))

\* "text/html" in ctype  (web_fetch.py:98, 107)
IsMarkup(ctype) == \E i \in 1..Len(ctype) : ctype[i] = "text/html"

\* slip: html format on markup goes through the reducer
Output_HtmlReduced(fmt, ctype, text, caps) ==
    IF fmt = "text"
    THEN IF IsMarkup(ctype) THEN HtmlToText(text, caps.bs) ELSE text
    ELSE IF fmt = "markdown"
         THEN IF IsMarkup(ctype) THEN HtmlToMarkdown(text, caps.md, caps.bs) ELSE Fenced(text)
         ELSE IF IsMarkup(ctype) THEN HtmlToText(text, caps.bs) ELSE text

\* output dispatch (web_fetch.py:97-116)
Output(fmt, ctype, text, caps) ==
    IF fmt = "text"
    THEN IF IsMarkup(ctype) THEN HtmlToText(text, caps.bs) ELSE text
    ELSE IF fmt = "markdown"
         THEN IF IsMarkup(ctype) THEN HtmlToMarkdown(text, caps.md, caps.bs) ELSE Fenced(text)
         ELSE text

\* which parsing helpers the dispatch calls (web_fetch.py:97-116, 152-163)
Invoked(fmt, ctype, caps) ==
    IF fmt = "text" /\ IsMarkup(ctype) THEN {"reducer"}
    ELSE IF fmt = "markdown" /\ IsMarkup(ctype)
         THEN IF caps.md THEN {"converter"} ELSE {"converter", "reducer"}
         ELSE {}

\* ---------------------------------------------------------------- state
VARIABLES url, format, timeout,   \* the arguments of the call
          pc,                     \* position in webfetch
          t,                      \* resolved timeout (0 before it is resolved)
          session,                \* "none" | "open" | "closed"
          requests,               \* URLs passed to _request, in order
          upgrade,                \* outcome of the https upgrade attempt
          r,                      \* the response bound to r, or NoResponse
          held,                   \* indices of requests whose connection is still held
          buf, chunks, empties,   \* buf.tell(), non-empty and empty chunks read
          elapsed,                \* time spent in the network phase
          failure, failStatus,    \* the exception raised, and the status it carries
          result,                 \* the returned mapping, or NoResult
          checks,                 \* the checks run on r, in order
          caps, invoked           \* which optional parsers exist; which helpers ran

vars == <<url, format, timeout, pc, t, session, requests, upgrade, r, held,
          buf, chunks, empties, elapsed, failure, failStatus, result, checks,
          caps, invoked>>

NoResponse == [status |-> 0]
NoResult == [output |-> None]
NoCaps == [bs |-> FALSE, md |-> FALSE, known |-> FALSE]

\* what a server can answer: final status, headers and the size of its body
Responses == [status : Statuses, cl : ContentLengths, ctype : ContentTypes, size : BodySizes]

\* one operation on the socket is either quick or takes just under the timeout
Durations(tt) == {0} \cup (IF elapsed + (tt - 1) <= MaxSlow * (tt - 1) THEN {tt - 1} ELSE {})

\* the text a body of n bytes decodes to
TextsOf(n) == IF n = 0 THEN {<<>>} ELSE BodyTexts

Init ==
    /\ url \in Urls
    /\ format \in FormatArgs
    /\ timeout \in TimeoutArgs
    /\ pc = "start"
    /\ t = 0
    /\ session = "none"
    /\ requests = <<>>
    /\ upgrade = "none"
    /\ r = NoResponse
    /\ held = {}
    /\ buf = 0 /\ chunks = 0 /\ empties = 0
    /\ elapsed = 0
    /\ failure = "" /\ failStatus = 0
    /\ result = NoResult
    /\ checks = <<>>
    /\ caps = NoCaps /\ invoked = {}

\* web_fetch.py:52-64: URL check, timeout resolution, session creation
Validate ==
    /\ pc = "start"
    /\ IF ~ValidUrl(url)
       THEN /\ pc' = "failed" /\ failure' = "InvalidInput"
            /\ UNCHANGED <<t, session>>
       ELSE /\ pc' = "negotiate" /\ t' = ResolveTimeout(timeout)
            /\ session' = "open" /\ UNCHANGED failure
    /\ UNCHANGED <<url, format, timeout, requests, upgrade, r, held, buf, chunks,
                   empties, elapsed, failStatus, result, checks, caps, invoked>>

\* _request (web_fetch.py:119-124) raising: the exception leaves webfetch
RequestRaises(u) ==
    /\ requests' = Append(requests, u)
    /\ pc' = "failed"
    /\ \/ failure' = "NetworkError" /\ \E d \in Durations(t) : elapsed' = elapsed + d
       \/ failure' = "Timeout" /\ elapsed' = elapsed + t
    /\ UNCHANGED <<r, held>>

\* _request (web_fetch.py:119-124) returning a streamed response
RequestReturns(u, resp) ==
    /\ requests' = Append(requests, u)
    /\ r' = [url |-> u, status |-> resp.status, cl |-> resp.cl,
             ctype |-> resp.ctype, size |-> resp.size]
    /\ held' = held \cup {Len(requests) + 1}
    /\ \E d \in Durations(t) : elapsed' = elapsed + d
    /\ UNCHANGED failure

\* web_fetch.py:68-71: the https variant is requested first
RequestUpgrade ==
    /\ pc = "negotiate"
    /\ StartsWith(url, "http://")
    /\ \/ /\ RequestRaises(HttpsVariant(url))
          /\ upgrade' = IF failure' = "Timeout" THEN "timeout" ELSE "neterr"
       \/ \E resp \in Responses :
             /\ RequestReturns(HttpsVariant(url), resp)
             /\ IF Ok(resp.status)
                THEN pc' = "status" /\ upgrade' = "ok"
                ELSE pc' = "fallback" /\ upgrade' = "bad_status"
    /\ UNCHANGED <<url, format, timeout, t, session, buf, chunks, empties,
                   failStatus, result, checks, caps, invoked>>

\* web_fetch.py:72: the original URL is requested after a non-2xx upgrade
RequestFallback ==
    /\ pc = "fallback"
    /\ \/ RequestRaises(url)
       \/ \E resp \in Responses : RequestReturns(url, resp) /\ pc' = "status"
    /\ UNCHANGED <<url, format, timeout, t, session, upgrade, buf, chunks, empties,
                   failStatus, result, checks, caps, invoked>>

\* web_fetch.py:73-74: an https URL is requested once
RequestDirect ==
    /\ pc = "negotiate"
    /\ ~StartsWith(url, "http://")
    /\ \/ RequestRaises(url)
       \/ \E resp \in Responses : RequestReturns(url, resp) /\ pc' = "status"
    /\ UNCHANGED <<url, format, timeout, t, session, upgrade, buf, chunks, empties,
                   failStatus, result, checks, caps, invoked>>

\* web_fetch.py:76-77
CheckStatus ==
    /\ pc = "status"
    /\ checks' = Append(checks, "status")
    /\ IF ~Ok(r.status)
       THEN pc' = "failed" /\ failure' = "RequestFailed" /\ failStatus' = r.status
       ELSE pc' = "length" /\ UNCHANGED <<failure, failStatus>>
    /\ UNCHANGED <<url, format, timeout, t, session, requests, upgrade, r, held, buf,
                   chunks, empties, elapsed, result, caps, invoked>>

\* web_fetch.py:79-83
CheckDeclaredLength ==
    /\ pc = "length"
    /\ checks' = Append(checks, "length")
    /\ IF DeclaredTooLarge(r.cl)
       THEN pc' = "failed" /\ failure' = "ResponseTooLarge"
       ELSE pc' = "stream" /\ UNCHANGED failure
    /\ UNCHANGED <<url, format, timeout, t, session, requests, upgrade, r, held, buf,
                   chunks, empties, elapsed, failStatus, result, caps, invoked>>

\* web_fetch.py:84-89: one iteration of the loop over r.iter_content, which
\* yields up to CHUNK_SIZE bytes at a time; an exhausted body hands its
\* connection back, and the loop ends
ReadChunk ==
    /\ pc = "stream"
    /\ checks' = IF checks[Len(checks)] = "stream" THEN checks ELSE Append(checks, "stream")
    /\ \/ /\ r.size - buf = 0
          /\ pc' = "assemble"
          /\ held' = held \ {Len(requests)}
          /\ UNCHANGED <<buf, chunks, empties, elapsed, failure>>
       \/ /\ r.size - buf > 0
          /\ LET n == IF r.size - buf < CHUNK_SIZE THEN r.size - buf ELSE CHUNK_SIZE
             IN /\ buf' = buf + n
                /\ chunks' = chunks + 1
                /\ IF ExceedsCap(buf + n)
                   THEN pc' = "failed" /\ failure' = "ResponseTooLarge"
                   ELSE UNCHANGED <<pc, failure>>
          /\ \E d \in Durations(t) : elapsed' = elapsed + d
          /\ UNCHANGED <<held, empties>>
       \/ /\ empties < MaxEmpty
          /\ empties' = empties + 1
          /\ UNCHANGED <<pc, held, buf, chunks, elapsed, failure>>
       \/ /\ r.size - buf > 0
          /\ pc' = "failed"
          /\ \/ failure' = "NetworkError" /\ UNCHANGED elapsed
             \/ failure' = "Timeout" /\ elapsed' = elapsed + t
          /\ UNCHANGED <<held, buf, chunks, empties>>
    /\ UNCHANGED <<url, format, timeout, t, session, requests, upgrade, r,
                   failStatus, result, caps, invoked>>

\* web_fetch.py:91-116: decode, build the title, dispatch on format.  Which
\* optional parsers were importable (web_fetch.py:11-19) is fixed before the
\* call and first read here
Assemble ==
    /\ pc = "assemble"
    /\ \E text \in TextsOf(buf), bs \in BOOLEAN, mdAvail \in BOOLEAN :
          /\ caps' = [bs |-> bs, md |-> mdAvail, known |-> TRUE]
          /\ result' = [title |-> <<r.url, r.ctype>>, metadata |-> <<>>,
                        output |-> Output(format, r.ctype, text, caps'),
                        text |-> text, bytes |-> buf]
          /\ invoked' = Invoked(format, r.ctype, caps')
    /\ pc' = "done"
    /\ UNCHANGED <<url, format, timeout, t, session, requests, upgrade, r, held, buf,
                   chunks, empties, elapsed, failure, failStatus, checks>>

Next ==
    \/ Validate
    \/ RequestUpgrade
    \/ RequestFallback
    \/ RequestDirect
    \/ CheckStatus
    \/ CheckDeclaredLength
    \/ ReadChunk
    \/ Assemble

Spec == Init /\ [][Next]_vars

TypeOK ==
    /\ pc \in {"start", "negotiate", "fallback", "status", "length", "stream",
               "assemble", "done", "failed"}
    /\ failure \in {"", "InvalidInput", "NetworkError", "Timeout", "RequestFailed",
                    "ResponseTooLarge"}
    /\ Len(requests) <= 2

\* ------------------------------------------------------------ properties
Exited == pc \in {"done", "failed"}
IsHttpUrl == Len(url) >= 1 /\ url[1] = "http://"
IsHttpsUrl == Len(url) >= 1 /\ url[1] = "https://"
CapPlusOne == <<"5","2","4","2","8","8","1">>
MarkupType == \E i \in DOMAIN r.ctype : r.ctype[i] = "text/html"
IsPrefix(a, b) == Len(a) <= Len(b) /\ a = SubSeq(b, 1, Len(a))

\* C1: for an http:// URL the first request goes to the https variant (scheme
\* replaced, rest identical), the original URL is requested only second, and
\* there are never more than two requests; an https:// URL is requested
\* exactly once.
C1_UpgradeFirst ==
    /\ IsHttpUrl =>
          /\ Len(requests) <= 2
          /\ pc \notin {"start", "negotiate"} => Len(requests) >= 1
          /\ Len(requests) >= 1 =>
                requests[1][1] = "https://" /\ Tail(requests[1]) = Tail(url)
          /\ Len(requests) = 2 => requests[2] = url
    /\ IsHttpsUrl =>
          /\ Len(requests) <= 1
          /\ pc \notin {"start", "negotiate"} => requests = <<url>>

C1_Witness ==
    pc = "done" /\ IsHttpUrl /\ Len(requests) = 2 /\ requests[2] = url

\* C2 (as claimed): for an http:// URL, whenever the upgrade attempt fails by
\* a network error or by a non-2xx status, the call has issued a second
\* request, to exactly the original URL, by the time it exits.
C2_FallbackOnAnyFailure ==
    (Exited /\ IsHttpUrl /\ upgrade \in {"neterr", "bad_status"}) =>
        (Len(requests) = 2 /\ requests[2] = url)

C4_StreamCap ==
    /\ buf > 5 * 1024 * 1024 => pc = "failed" /\ failure = "ResponseTooLarge"
    /\ buf <= 5 * 1024 * 1024 + CHUNK_SIZE
    /\ chunks * CHUNK_SIZE < buf + CHUNK_SIZE
    /\ pc = "done" => result.bytes <= 5 * 1024 * 1024 /\ result.bytes = r.size

C4_Witness ==
    /\ pc = "failed" /\ failure = "ResponseTooLarge"
    /\ r.cl = <<"1", "0">> /\ chunks = 81 /\ buf < r.size

\* C5 (as claimed): when the call exits, the session is closed and no
\* response still holds its connection.
C5_AllReleased ==
    Exited => (session # "open" /\ held = {})

\* C6: a URL without the http:// or https:// prefix fails with InvalidInput,
\* with no request issued and no session touched.
C6_BadUrlNoNetwork ==
    (url = <<>> \/ url[1] \notin {"http://", "https://"}) =>
        /\ requests = <<>> /\ session = "none" /\ r = NoResponse
        /\ result = NoResult
        /\ pc \in {"start", "failed"}
        /\ pc = "failed" => failure = "InvalidInput"

C6_Witness ==
    pc = "failed" /\ failure = "InvalidInput" /\ url = <<"ftp://", "h">>

\* C7 (as claimed): a format outside text/markdown/html never reaches the
\* network, never returns a result, and is rejected with InvalidInput.
C7_BadFormatRejected ==
    format \notin {"text", "markdown", "html"} =>
        /\ requests = <<>>
        /\ result = NoResult
        /\ Exited => failure = "InvalidInput"

\* C8: a successful call with one of the three formats selects its output by
\* (format, content-type contains text/html) as in the dispatch table; html
\* runs neither helper; metadata is empty.
C8_Dispatch ==
    (pc = "done" /\ format \in {"text", "markdown", "html"}) =>
        /\ result.metadata = <<>>
        /\ format = "text" /\ MarkupType =>
              result.output = HtmlToText(result.text, caps.bs) /\ "reducer" \in invoked
        /\ format = "text" /\ ~MarkupType => result.output = result.text
        /\ format = "markdown" /\ MarkupType =>
              result.output = HtmlToMarkdown(result.text, caps.md, caps.bs)
              /\ "converter" \in invoked
        /\ format = "markdown" /\ ~MarkupType =>
              result.output = <<"[fence]", "\n">> \o result.text \o <<"\n", "[fence]">>
        /\ format = "html" => result.output = result.text /\ invoked = {}
        /\ ~MarkupType => invoked = {}

C8_Witness ==
    /\ pc = "done" /\ format = "text" /\ MarkupType
    /\ result.text = <<"<script>", "x", "</script>", "<p>", "Hi", " ", " ", "there", "</p>">>
    /\ result.output = <<"Hi", " ", "there">>

\* C9 (as claimed): the resolved timeout bounds the whole network phase: once
\* the time spent exceeds it, the call has failed with Timeout and has no
\* result.
C9_TotalTimeBounded ==
    /\ pc # "start" /\ ~(url = <<>> \/ url[1] \notin {"http://", "https://"}) =>
          t = (IF timeout = <<>> THEN 30 ELSE IF timeout[1] > 120 THEN 120 ELSE timeout[1])
    /\ elapsed > t => (pc = "failed" /\ failure = "Timeout" /\ result = NoResult)

====
